---- MODULE Spec2Model ----
(***************************************************************************)
(* Model of src/main.py: the storefront ranking collector.                 *)
(*                                                                         *)
(* One run of main() is a sequential program.  Its position is pc:         *)
(*   "start"    before main() has run                                      *)
(*   "aborted"  main() stopped before the scan (no key, catalog error)     *)
(*   "loop"     at the head of the for loop (line 120)                     *)
(*   "all"      the Japanese summary qualified; line 137 is next           *)
(*   "details"  line 146 is next                                           *)
(*   "sleep"    the id is settled; its time.sleep and the advance are next *)
(*   "crashed"  an exception left main() during the scan                   *)
(*   "cleanup"  data.json is written; lines 180-184 are next               *)
(*   "done"     main() returned after a complete scan                      *)
(*                                                                         *)
(* Python values.  A dict is a function from its keys (strings) to their   *)
(* values, so that `k in d` is k \in DOMAIN d; a list is a sequence.  An   *)
(* array of a parsed JSON body is Array(items), which no dict equals, so   *)
(* that [] and {} differ where the code calls a dict method on what the    *)
(* body holds.  A value that may be None is a sequence of length at most   *)
(* one: None is << >> and a present value v is << v >>.  Percentages are   *)
(* integers in hundredths of a percent (90.0 is 9000).  A str is a         *)
(* sequence of code points where the code edits it (name.strip()): " G"    *)
(* is << 32, 71 >>.                                                        *)
(***************************************************************************)
EXTENDS Integers, Sequences, FiniteSets, TLC

VARIABLES
    pc,            \* position of main()
    apiKey,        \* STEAM_API_KEY is set (line 9)
    SAVE_EVERY,    \* line 23, read from the environment
    MAX_APPS,      \* line 22, read from the environment
    leftover,      \* an earlier run left data_partial.json and data.json behind
    catalog_resp,  \* the catalog endpoint's answer to this run, None before it
    apps,          \* line 116
    limit,         \* line 118
    i,             \* loop index of line 120
    results,       \* line 117
    jp,            \* this id's Japanese summary (line 128), None outside
    all_qs,        \* this id's all-languages summary (line 137), None outside
    details_resp,  \* this id's store-details response, None outside
    outcome,       \* how this id was settled: "none", "skip_jp", "skip_details", "added"
    tmpFile,       \* data_partial.json: [exists, data]
    outFile,       \* data.json: [exists, data]
    sleeps,        \* number of time.sleep calls so far
    sinceSleep,    \* requests sent since the last time.sleep (or since the scan began)
    excluded,      \* history: ids whose Japanese summary was absent, empty or
                   \* without a count of at least 200 reviews
    presort        \* history: results as accumulated, recorded when the scan ends

vars == << pc, apiKey, SAVE_EVERY, MAX_APPS, leftover, catalog_resp, apps, limit, i,
           results, jp, all_qs, details_resp, outcome, tmpFile, outFile, sleeps,
           sinceSleep, excluded, presort >>

-----------------------------------------------------------------------------
(* Bounds of the model *)

\* Length of the catalog the listing endpoint returns.
MaxApps == 3

\* Largest checkpoint interval the environment sets.
MaxSaveEvery == 2

-----------------------------------------------------------------------------
(* Python values *)

None == << >>

Some(v) == << v >>

EmptyDict == [k \in {} |-> 0]

\* dict.get(k, default)
Get(d, k, default) == IF k \in DOMAIN d THEN d[k] ELSE default

\* dict.get(k)
GetOpt(d, k) == IF k \in DOMAIN d THEN Some(d[k]) ELSE None

\* A JSON array: its items under the key "[]", which is the key of no JSON
\* object of the storefront
Array(items) == [k \in {"[]"} |-> items]

IsArray(v) == "[]" \in DOMAIN v

\* isinstance(v, dict), for v a dict or a list
IsDict(v) == ~IsArray(v)

Items(v) == v["[]"]

\* bool(x) for x a dict, a list or None
Truthy(x) ==
    /\ x # None
    /\ IF IsArray(x[1]) THEN Items(x[1]) # << >> ELSE DOMAIN x[1] # {}

Min(a, b) == IF a <= b THEN a ELSE b

Max(a, b) == IF a >= b THEN a ELSE b

(* Double-precision arithmetic of line 134 and line 140 *)

\* Large integers are sequences of base-256 digits, lowest digit first.

RECURSIVE Pow2(_)
Pow2(n) == IF n = 0 THEN 1 ELSE 2 * Pow2(n - 1)

RECURSIVE ToInt(_)
ToInt(b) == IF b = << >> THEN 0 ELSE Head(b) + 256 * ToInt(Tail(b))

\* b * k + carry, for small k and carry
RECURSIVE MulSmall(_, _, _)
MulSmall(b, k, carry) ==
    IF b = << >>
    THEN IF carry = 0 THEN << >>
         ELSE << carry % 256 >> \o MulSmall(b, k, carry \div 256)
    ELSE LET v == Head(b) * k + carry
         IN  << v % 256 >> \o MulSmall(Tail(b), k, v \div 256)

\* Quotient and remainder of b by a small divisor
RECURSIVE DivSmall(_, _)
DivSmall(b, t) ==
    IF b = << >> THEN [q |-> << >>, rem |-> 0]
    ELSE LET hi == DivSmall(Tail(b), t)
             cur == hi.rem * 256 + Head(b)
         IN  [q |-> << cur \div t >> \o hi.q, rem |-> cur % t]

\* b / 2^d (d >= 1) rounded to the nearest integer, halves to the even one;
\* sticky: the exact value is a little above b
RoundShift(b, d, sticky) ==
    LET whole == (d - 1) \div 8
        dropped == SubSeq(b, 1, IF whole <= Len(b) THEN whole ELSE Len(b))
        kept == DivSmall(SubSeq(b, whole + 1, Len(b)), Pow2((d - 1) % 8))
        half == DivSmall(kept.q, 2)
        above == sticky \/ kept.rem > 0 \/ \E n \in 1..Len(dropped) : dropped[n] > 0
        odd == half.q # << >> /\ Head(half.q) % 2 = 1
    IN  IF half.rem = 1 /\ (above \/ odd) THEN MulSmall(half.q, 1, 1) ELSE half.q

\* A double is m * 2^e with 2^52 <= m < 2^53; a rounding may reach 2^53
Normalise(m, e) ==
    IF ToInt(SubSeq(m, 7, Len(m))) >= 32
    THEN [m |-> DivSmall(m, 2).q, e |-> e + 1]
    ELSE [m |-> m, e |-> e]

RECURSIVE ScaleUp(_, _)
ScaleUp(p, t) == IF p >= t THEN 0 ELSE 1 + ScaleUp(2 * p, t)

RECURSIVE ScaleDown(_, _)
ScaleDown(p, t) == IF p < 2 * t THEN 0 ELSE 1 + ScaleDown(p, 2 * t)

\* The double p / t for integers p > 0 and t > 0 (true division)
TrueDiv(p, t) ==
    LET up == ScaleUp(p, t)
        down == ScaleDown(p, t)
        P == p * Pow2(up)
        T == t * Pow2(down)
        scaled == DivSmall([k \in 1..6 |-> 0] \o MulSmall(<< >>, 1, P * 32), T)
    IN  Normalise(RoundShift(scaled.q, 1, scaled.rem > 0), down - up - 52)

\* The double x * 100
Times100(x) ==
    LET n == MulSmall(x.m, 100, 0)
        d == IF ToInt(SubSeq(n, 8, Len(n))) >= 8 THEN 7 ELSE 6
    IN  Normalise(RoundShift(n, d, FALSE), x.e + d)

\* round(x, 2) for a double x, in hundredths
Round2(x) ==
    LET n == MulSmall(x.m, 100, 0)
    IN  IF x.e >= 0 THEN ToInt(n) * Pow2(x.e) ELSE ToInt(RoundShift(n, -x.e, FALSE))

\* round(p / t * 100, 2) in hundredths of a percent, for integers p >= 0 and
\* 0 < t below 2^22: the double p / t, times 100 in doubles, rounded to two
\* decimals.  The result can differ from the rounded exact quotient where
\* that lies half way between two hundredths (23 / 160 gives 14.37, 21 / 224
\* gives 9.38).
RoundPct(p, t) == IF p = 0 THEN 0 ELSE Round2(Times100(TrueDiv(p, t)))

\* The code points c with chr(c).isspace(): what str.strip() removes
Whitespace ==
    (9..13) \cup (28..32) \cup {133, 160, 5760} \cup (8192..8202)
        \cup {8232, 8233, 8239, 8287, 12288}

\* str.strip() on a sequence of code points
RECURSIVE LStrip(_)
LStrip(s) == IF s # << >> /\ Head(s) \in Whitespace THEN LStrip(Tail(s)) ELSE s

RECURSIVE RStrip(_)
RStrip(s) ==
    IF s # << >> /\ s[Len(s)] \in Whitespace
    THEN RStrip(SubSeq(s, 1, Len(s) - 1))
    ELSE s

Strip(s) == RStrip(LStrip(s))

-----------------------------------------------------------------------------
(* HTTP responses: what session.get did.  raises: the call raised (network *)
(* error, retries exhausted); status: the status code; json: the parsed    *)
(* body, None when r.json() raises.                                        *)

Response(raises, status, json) == [raises |-> raises, status |-> status, json |-> json]

NetworkError == Response(TRUE, 0, None)

Status(code) == Response(FALSE, code, None)

Ok(body) == Response(FALSE, 200, Some(body))

NotJson == Response(FALSE, 200, None)

-----------------------------------------------------------------------------
(* The three fetchers *)

\* r.raise_for_status(): raises for a 4xx or 5xx status, and for no other
RaisesForStatus(r) == r.status >= 400 /\ r.status < 600

\* Variant of get_app_list without raise_for_status.
get_app_list_unchecked(r) ==
    IF r.raises \/ r.json = None
    THEN None
    ELSE IF ~IsDict(r.json[1]) THEN None
    ELSE LET response == Get(r.json[1], "response", EmptyDict)
         IN  IF ~IsDict(response) THEN None
             ELSE Some(Get(response, "apps", Array(<< >>)))

\* get_app_list (lines 41-44): None when an exception leaves the function
\* (the request, the status, the parse, or .get on a body or a "response"
\* that is a list: AttributeError), otherwise the value under "apps"
get_app_list(r) ==
    IF r.raises \/ RaisesForStatus(r) \/ r.json = None
    THEN None
    ELSE IF ~IsDict(r.json[1]) THEN None
    ELSE LET response == Get(r.json[1], "response", EmptyDict)
         IN  IF ~IsDict(response) THEN None
             ELSE Some(Get(response, "apps", Array(<< >>)))

\* get_review_summary (lines 46-54): the value under query_summary, or None;
\* a body that is a list has no .get (AttributeError, caught at line 53)
get_review_summary(r) ==
    IF r.raises THEN None
    ELSE IF r.status # 200 THEN None
    ELSE IF r.json = None THEN None
    ELSE IF ~IsDict(r.json[1]) THEN None
    ELSE GetOpt(r.json[1], "query_summary")

\* [g["description"] for g in v]: None when an exception leaves the
\* comprehension (caught at line 104): an item without description
\* (KeyError), an item that is a list, or v a dict with keys, whose items
\* are its keys (TypeError)
Descriptions(v) ==
    IF IsDict(v)
    THEN IF DOMAIN v = {} THEN Some(<< >>) ELSE None
    ELSE LET items == Items(v)
         IN  IF \E n \in 1..Len(items) :
                    IsArray(items[n]) \/ "description" \notin DOMAIN items[n]
             THEN None
             ELSE Some([n \in 1..Len(items) |-> items[n].description])

\* get_app_details (lines 56-105): the details dict, or None; .get on a
\* list raises AttributeError, caught at line 104
get_app_details(appid, r) ==
    IF r.raises THEN None
    ELSE IF r.status # 200 THEN None
    ELSE IF r.json = None THEN None
    ELSE IF ~IsDict(r.json[1]) THEN None
    ELSE
      LET outer == Get(r.json[1], ToString(appid), EmptyDict)
      IN  IF ~IsDict(outer) THEN None
          ELSE IF ~Get(outer, "success", FALSE) THEN None
          ELSE IF ~IsDict(Get(outer, "data", EmptyDict)) THEN None
          ELSE IF ~IsDict(Get(Get(outer, "data", EmptyDict), "release_date", EmptyDict))
          THEN None
          ELSE
            LET data == Get(outer, "data", EmptyDict)
                release_date == GetOpt(Get(data, "release_date", EmptyDict), "date")
                genres == Descriptions(Get(data, "genres", Array(<< >>)))
                categories == Descriptions(Get(data, "categories", Array(<< >>)))
                price_overview == GetOpt(data, "price_overview")
                priced == Truthy(price_overview)
            IN  IF genres = None \/ categories = None THEN None
                ELSE IF priced /\ ~IsDict(price_overview[1]) THEN None
                ELSE Some([
                    release_date |-> release_date,
                    genres |-> genres[1],
                    categories |-> categories[1],
                    price_initial |->
                        IF priced THEN GetOpt(price_overview[1], "initial") ELSE None,
                    price_final |->
                        IF priced THEN GetOpt(price_overview[1], "final") ELSE None,
                    discount_percent |->
                        IF priced THEN GetOpt(price_overview[1], "discount_percent")
                        ELSE None ])

-----------------------------------------------------------------------------
(* The steps of main() *)

\* Qualification threshold of line 129
MinJpReviews == 200

\* line 112: `if not STEAM_API_KEY`
KeyMissing(key) == ~key

\* len(v) for v a list or a dict of a parsed body
PyLen(v) == IF IsArray(v) THEN Len(Items(v)) ELSE Cardinality(DOMAIN v)

\* line 118, for the value get_app_list returned
Limit(max_apps, v) == IF max_apps > 0 THEN max_apps ELSE PyLen(v)

\* apps[:limit] of line 120
Scan(list, lim) == SubSeq(list, 1, Min(lim, Len(list)))

\* Variant of SkipsJp with the threshold mistyped as 20.
SkipsJpLowThreshold(summary) ==
    \/ ~Truthy(summary)
    \/ IsDict(summary[1]) /\ Get(summary[1], "total_reviews", 0) < 20

\* line 129: the id is skipped
SkipsJp(summary) ==
    \/ ~Truthy(summary)
    \/ IsDict(summary[1]) /\ Get(summary[1], "total_reviews", 0) < MinJpReviews

\* An exception leaves lines 129-134: jp.get on a summary that is a list
\* with items (AttributeError), or jp["total_positive"] on a summary
\* without it (KeyError)
JpRaises(summary) ==
    \/ IsArray(summary[1])
    \/ "total_positive" \notin DOMAIN summary[1]

\* line 134
PositiveRateJp(summary) == RoundPct(summary[1].total_positive, summary[1].total_reviews)

\* Variant of AllStats that defaults an absent summary to zero.
AllStatsZero(summary) ==
    LET total_all == IF Truthy(summary) THEN Get(summary[1], "total_reviews", 0) ELSE 0
        positive == IF Truthy(summary) THEN Get(summary[1], "total_positive", 0) ELSE 0
    IN  [total |-> Some(total_all),
         rate |-> Some(RoundPct(positive, Max(total_all, 1)))]

\* line 139 raises AttributeError: all_qs.get on a summary that is a list
\* with items
AllRaises(summary) == Truthy(summary) /\ IsArray(summary[1])

\* lines 138-143: the pair (total_all, positive_rate_all)
AllStats(summary) ==
    IF Truthy(summary)
    THEN LET total_all == Get(summary[1], "total_reviews", 0)
         IN  [total |-> Some(total_all),
              rate |-> Some(RoundPct(Get(summary[1], "total_positive", 0),
                                     Max(total_all, 1)))]
    ELSE [total |-> None, rate |-> None]

\* lines 151-166
Entry(app, summary, all_summary, details) ==
    LET appid == app.appid
        stats == AllStats(all_summary)
    IN  [ appid |-> appid,
          name |-> Strip(Get(app, "name", << >>)),
          release_date |-> details.release_date,
          genres |-> details.genres,
          categories |-> details.categories,
          total_reviews_jp |-> summary[1].total_reviews,
          positive_rate_jp |-> PositiveRateJp(summary),
          total_reviews_all |-> stats.total,
          positive_rate_all |-> stats.rate,
          store_url |-> << "https://store.steampowered.com/app/", appid >>,
          image_url |-> << "https://cdn.akamai.steamstatic.com/steam/apps/", appid,
                           "/capsule_231x87.jpg" >>,
          price_initial |-> details.price_initial,
          price_final |-> details.price_final,
          discount_percent |-> details.discount_percent ]

\* Variant of ShouldCheckpoint that tests equality instead of divisibility.
CheckpointOnce(n, every) == n = every

\* line 170
ShouldCheckpoint(n, every) == n % every = 0

\* save_results (lines 107-109): the file after the write
save_results(list) == [exists |-> TRUE, data |-> list]

\* lines 180-184: the file after `os.remove(TMP_FILE)`; when os.remove raises
\* (the file system refuses the removal) the bare except swallows it and the
\* file stays
RemoveCheckpoint(file, raises) ==
    IF raises THEN file ELSE [exists |-> FALSE, data |-> << >>]

\* Variant of Delays without the sleep of line 148.
DelaysNoDetails(how) ==
    CASE how = "skip_jp" -> 1
      [] how = "added" -> 1
      [] OTHER -> 0

\* time.sleep calls at the end of an iteration (lines 130, 148, 173)
Delays(how) ==
    CASE how = "skip_jp" -> 1
      [] how = "skip_details" -> 1
      [] how = "added" -> 1
      [] OTHER -> 0

\* list.sort(key=positive_rate_jp, reverse=True), line 176.  The list is
\* reversed, sorted ascending by a stable sort, and reversed again, so that
\* equal keys keep their order.
Reverse(s) == [n \in 1..Len(s) |-> s[Len(s) + 1 - n]]

RECURSIVE InsertAsc(_, _)
InsertAsc(s, e) ==
    IF s = << >> THEN << e >>
    ELSE IF Head(s).positive_rate_jp <= e.positive_rate_jp
         THEN << Head(s) >> \o InsertAsc(Tail(s), e)
         ELSE << e >> \o s

RECURSIVE StableAsc(_)
StableAsc(s) ==
    IF s = << >> THEN << >>
    ELSE InsertAsc(StableAsc(SubSeq(s, 1, Len(s) - 1)), s[Len(s)])

\* Variant of SortByRateDesc that sorts ascending and reverses: equal keys
\* come out in reverse order.
SortNoPreReverse(s) == Reverse(StableAsc(s))

SortByRateDesc(s) == Reverse(StableAsc(Reverse(s)))

-----------------------------------------------------------------------------
(* What the storefront answers *)

\* The catalog the listing endpoint serves: ids 10, 20, ..., names with and
\* without surrounding whitespace (tab, space, ideographic space).
CatalogApp(k) ==
    [appid |-> 10 * k,
     name |-> IF k % 2 = 1 THEN << 9, 32, 71, 32, 12288 >> ELSE << 72 >>]

Catalog == [k \in 1..MaxApps |-> CatalogApp(k)]

\* Among them: a status outside 4xx and 5xx with a one-app catalog, a body
\* and a "response" that are lists, and an "apps" that is a dict.
CatalogResponses ==
    { NetworkError, Status(503), Response(FALSE, 403, Some(EmptyDict)), NotJson,
      Response(FALSE, 600, Some([response |-> [apps |-> Array(<< CatalogApp(1) >>)]])),
      Ok(Array(<< >>)), Ok([response |-> Array(<< >>)]),
      Ok([response |-> [apps |-> EmptyDict]]),
      Ok(EmptyDict), Ok([response |-> [apps |-> Array(Catalog)]]) }

Summary(total, positive) == [total_reviews |-> total, total_positive |-> positive]

Reviews(summary) == Ok([query_summary |-> summary])

\* The fields of a summary are integers >= 0 and nothing relates them.  The
\* qualifying summaries give 75.0, 14.37 (of 14.375) and, with more positive
\* reviews than reviews, 166.67 (of 166.66...).
JpResponses ==
    { NetworkError, Status(502), NotJson, Ok([success |-> 2]), Reviews(EmptyDict),
      Ok(Array(<< >>)), Reviews(Array(<< >>)), Reviews(Array(<< EmptyDict >>)),
      Reviews([total_positive |-> 40]),
      Reviews(Summary(50, 50)), Reviews(Summary(199, 199)),
      Reviews([total_reviews |-> 500]),
      Reviews(Summary(200, 150)), Reviews(Summary(320, 46)), Reviews(Summary(300, 500)) }

AllResponses ==
    { NetworkError, Status(502), Ok([success |-> 2]), Reviews(EmptyDict),
      Reviews(Array(<< >>)), Reviews(Array(<< EmptyDict >>)),
      Reviews([total_positive |-> 300]),
      Reviews(Summary(1000, 800)) }

Store(appid, outer) == Ok([k \in {ToString(appid)} |-> outer])

FullData ==
    [release_date |-> [coming_soon |-> FALSE, date |-> "2013-07-09"],
     genres |-> Array(<< [id |-> "1", description |-> "Action"] >>),
     categories |-> Array(<< [id |-> 2, description |-> "Single-player"] >>),
     price_overview |-> [initial |-> 1000, final |-> 500, discount_percent |-> 50]]

\* A store page without release date, genres or price (a delisted or free app)
BareData == [release_date |-> [coming_soon |-> TRUE], price_overview |-> EmptyDict]

\* The store data of an app: every other app of the catalog has a full page
StoreData(appid) == IF (appid \div 10) % 2 = 1 THEN FullData ELSE BareData

DetailsResponses(appid) ==
    { NetworkError, Status(429), NotJson, Ok(EmptyDict), Ok(Array(<< >>)),
      Store(appid + 1, [success |-> TRUE, data |-> FullData]),
      Store(appid, [success |-> FALSE]),
      Store(appid, [success |-> TRUE, data |-> Array(<< >>)]),
      Store(appid, [success |-> TRUE, data |-> [genres |-> Array(<< [id |-> "1"] >>)]]),
      Store(appid, [success |-> TRUE, data |-> StoreData(appid)]) }
      \cup IF StoreData(appid) = BareData
           THEN { Store(appid, [success |-> TRUE]) }
           ELSE {}

\* What an earlier run left on disk
StaleEntry == [appid |-> 999, positive_rate_jp |-> 5000]

NoFile == [exists |-> FALSE, data |-> << >>]

PriorFile(left) == IF left THEN [exists |-> TRUE, data |-> << StaleEntry >>] ELSE NoFile

\* The Japanese summary of a response is absent (no answer, no summary, an
\* empty summary) or does not count at least 200 reviews (no total_reviews,
\* or fewer than 200): the ids line 129 skips
BelowThreshold(r) ==
    \/ r.raises
    \/ r.status # 200
    \/ r.json = None
    \/ IsArray(r.json[1])
    \/ "query_summary" \notin DOMAIN r.json[1]
    \/ IF IsArray(r.json[1].query_summary)
       THEN Items(r.json[1].query_summary) = << >>
       ELSE \/ DOMAIN r.json[1].query_summary = {}
            \/ "total_reviews" \notin DOMAIN r.json[1].query_summary
            \/ r.json[1].query_summary.total_reviews < 200

-----------------------------------------------------------------------------
(* The run *)

Init ==
    /\ pc = "start"
    /\ apiKey \in BOOLEAN
    /\ SAVE_EVERY \in 1..MaxSaveEvery
    /\ MAX_APPS \in {0, MaxApps - 1}
    /\ leftover \in BOOLEAN
    /\ catalog_resp = None
    /\ apps = << >>
    /\ limit = 0
    /\ i = 0
    /\ results = << >>
    /\ jp = None
    /\ all_qs = None
    /\ details_resp = None
    /\ outcome = "none"
    /\ tmpFile = PriorFile(leftover)
    /\ outFile = PriorFile(leftover)
    /\ sleeps = 0
    /\ sinceSleep = 0
    /\ excluded = {}
    /\ presort = << >>

\* lines 112-114: no key, main() returns
AbortNoKey ==
    /\ pc = "start"
    /\ KeyMissing(apiKey)
    /\ pc' = "aborted"
    /\ UNCHANGED << apiKey, SAVE_EVERY, MAX_APPS, leftover, catalog_resp, apps, limit, i,
                    results, jp, all_qs, details_resp, outcome, tmpFile, outFile,
                    sleeps, sinceSleep, excluded, presort >>

\* lines 116-120: the catalog fetch; an exception in get_app_list ends the
\* run at line 116, and apps[:limit] on a dict (no slice of a dict) ends it
\* at line 120, after apps and limit are assigned
FetchCatalog ==
    /\ pc = "start"
    /\ ~KeyMissing(apiKey)
    /\ \E r \in CatalogResponses :
         /\ catalog_resp' = Some(r)
         /\ IF get_app_list(r) = None
            THEN /\ pc' = "aborted"
                 /\ UNCHANGED << apps, limit >>
            ELSE IF ~IsArray(get_app_list(r)[1])
            THEN /\ pc' = "aborted"
                 /\ apps' = get_app_list(r)[1]
                 /\ limit' = Limit(MAX_APPS, get_app_list(r)[1])
            ELSE /\ pc' = "loop"
                 /\ apps' = Items(get_app_list(r)[1])
                 /\ limit' = Limit(MAX_APPS, get_app_list(r)[1])
    /\ UNCHANGED << apiKey, SAVE_EVERY, MAX_APPS, leftover, i, results, jp, all_qs,
                    details_resp, outcome, tmpFile, outFile, sleeps, sinceSleep,
                    excluded, presort >>

\* The app of this iteration
App == Scan(apps, limit)[i + 1]

\* lines 121-134: the Japanese summary and the qualification test
FetchJp ==
    /\ pc = "loop"
    /\ i < Len(Scan(apps, limit))
    /\ \E r \in JpResponses :
         LET summary == get_review_summary(r)
         IN  /\ jp' = summary
             /\ excluded' = IF BelowThreshold(r) THEN excluded \cup {App.appid}
                            ELSE excluded
             /\ IF SkipsJp(summary)
                THEN pc' = "sleep" /\ outcome' = "skip_jp"
                ELSE IF JpRaises(summary)
                THEN pc' = "crashed" /\ outcome' = "none"
                ELSE pc' = "all" /\ outcome' = "none"
    /\ sinceSleep' = sinceSleep + 1
    /\ UNCHANGED << apiKey, SAVE_EVERY, MAX_APPS, leftover, catalog_resp, apps, limit, i,
                    results, all_qs, details_resp, tmpFile, outFile, sleeps, presort >>

\* lines 137-143: the all-languages summary
FetchAll ==
    /\ pc = "all"
    /\ \E r \in AllResponses :
         /\ all_qs' = get_review_summary(r)
         /\ pc' = IF AllRaises(get_review_summary(r)) THEN "crashed" ELSE "details"
    /\ sinceSleep' = sinceSleep + 1
    /\ UNCHANGED << apiKey, SAVE_EVERY, MAX_APPS, leftover, catalog_resp, apps, limit, i,
                    results, jp, details_resp, outcome, tmpFile, outFile, sleeps,
                    excluded, presort >>

\* lines 146-171: the details, the entry and the checkpoint
FetchDetails ==
    /\ pc = "details"
    /\ \E r \in DetailsResponses(App.appid) :
         LET details == get_app_details(App.appid, r)
             grown == Append(results, Entry(App, jp, all_qs, details[1]))
         IN  /\ details_resp' = Some(r)
             /\ IF details = None
                THEN /\ outcome' = "skip_details"
                     /\ UNCHANGED << results, tmpFile >>
                ELSE /\ outcome' = "added"
                     /\ results' = grown
                     /\ tmpFile' = IF ShouldCheckpoint(Len(grown), SAVE_EVERY)
                                   THEN save_results(grown)
                                   ELSE tmpFile
    /\ pc' = "sleep"
    /\ sinceSleep' = sinceSleep + 1
    /\ UNCHANGED << apiKey, SAVE_EVERY, MAX_APPS, leftover, catalog_resp, apps, limit, i,
                    jp, all_qs, outFile, sleeps, excluded, presort >>

\* lines 130-131, 148-149, 173: the delay that ends the iteration
Sleep ==
    /\ pc = "sleep"
    /\ sleeps' = sleeps + Delays(outcome)
    /\ sinceSleep' = IF Delays(outcome) > 0 THEN 0 ELSE sinceSleep
    /\ i' = i + 1
    /\ pc' = "loop"
    /\ jp' = None
    /\ all_qs' = None
    /\ details_resp' = None
    /\ outcome' = "none"
    /\ UNCHANGED << apiKey, SAVE_EVERY, MAX_APPS, leftover, catalog_resp, apps, limit,
                    results, tmpFile, outFile, excluded, presort >>

\* lines 176-178: the scan is over; sort and write data.json
Finish ==
    /\ pc = "loop"
    /\ i = Len(Scan(apps, limit))
    /\ presort' = results
    /\ results' = SortByRateDesc(results)
    /\ outFile' = save_results(SortByRateDesc(results))
    /\ pc' = "cleanup"
    /\ UNCHANGED << apiKey, SAVE_EVERY, MAX_APPS, leftover, catalog_resp, apps, limit, i,
                    jp, all_qs, details_resp, outcome, tmpFile, sleeps, sinceSleep,
                    excluded >>

\* lines 180-186: remove the checkpoint if there is one; a removal that
\* raises is swallowed by the bare except
Cleanup ==
    /\ pc = "cleanup"
    /\ \E raises \in BOOLEAN :
         tmpFile' = IF tmpFile.exists THEN RemoveCheckpoint(tmpFile, raises)
                    ELSE tmpFile
    /\ pc' = "done"
    /\ UNCHANGED << apiKey, SAVE_EVERY, MAX_APPS, leftover, catalog_resp, apps, limit, i,
                    results, jp, all_qs, details_resp, outcome, outFile, sleeps,
                    sinceSleep, excluded, presort >>

Next ==
    \/ AbortNoKey
    \/ FetchCatalog
    \/ FetchJp
    \/ FetchAll
    \/ FetchDetails
    \/ Sleep
    \/ Finish
    \/ Cleanup

Spec == Init /\ [][Next]_vars

-----------------------------------------------------------------------------
(* Vocabulary of the properties *)

Scanning == pc \in {"loop", "all", "details", "sleep"}

\* The entry appended in this iteration
Last == results[Len(results)]

Abs(x) == IF x < 0 THEN -x ELSE x

Elems(s) == {s[n] : n \in 1..Len(s)}

\* Position of an entry in a list of entries with distinct ids
PosIn(s, e) == CHOOSE n \in 1..Len(s) : s[n].appid = e.appid

\* Position of an id in the catalog
CatalogPos(appid) == CHOOSE k \in 1..Len(apps) : apps[k].appid = appid

\* The catalog fetch ended in an error: the request failed, the status is
\* a 4xx or a 5xx, or the body is not the JSON object get_app_list reads
CatalogFailed(r) ==
    \/ r.raises
    \/ r.status \in 400..599
    \/ r.json = None
    \/ IsArray(r.json[1])
    \/ "response" \in DOMAIN r.json[1] /\ IsArray(r.json[1].response)

\* The Japanese summary counts at least 200 reviews
JpQualifies ==
    /\ jp # None
    /\ "total_reviews" \in DOMAIN jp[1]
    /\ jp[1].total_reviews >= 200

-----------------------------------------------------------------------------
(* Properties *)

\* C1: an id whose Japanese summary is absent or counts fewer than 200
\* reviews is in no entry of the accumulated list, of the checkpoint file or
\* of the output file.
C1_Exclusion ==
    \A list \in {results, tmpFile.data, outFile.data} :
        \A n \in 1..Len(list) : list[n].appid \notin excluded

\* C1 witness: a finished run that excluded one id and kept two others, with
\* a checkpoint written on the way.
C1_Witness ==
    /\ pc = "cleanup"
    /\ Cardinality(excluded) = 1
    /\ Len(outFile.data) = 2
    /\ tmpFile.data = presort

\* C2 as claimed: no failing review-summary fetch ends the run; main() never
\* leaves the scan by an exception.
C2_SoftFailure == pc # "crashed"

\* C3: the output file is the accumulated list sorted descending by
\* positive_rate_jp: adjacent rates do not increase, the output is a
\* permutation of the accumulated entries, entries of equal rate keep their
\* accumulation order, and accumulation order is catalog order.
C3_SortedOutput ==
    pc \in {"cleanup", "done"} =>
        LET out == outFile.data
        IN  /\ outFile.exists
            /\ \A n \in 1..(Len(out) - 1) :
                  out[n].positive_rate_jp >= out[n + 1].positive_rate_jp
            /\ Len(out) = Len(presort)
            /\ Elems(out) = Elems(presort)
            /\ \A m, n \in 1..Len(out) :
                  (m < n /\ out[m].positive_rate_jp = out[n].positive_rate_jp)
                      => PosIn(presort, out[m]) < PosIn(presort, out[n])
            /\ \A m, n \in 1..Len(presort) :
                  m < n => CatalogPos(presort[m].appid) < CatalogPos(presort[n].appid)

\* C3 witness: three entries, the first accumulated has the lowest rate and
\* the other two tie, so the sort moves entries and has a tie to keep.
C3_Witness ==
    /\ pc = "done"
    /\ Len(presort) = 3
    /\ presort[1].positive_rate_jp < presort[2].positive_rate_jp
    /\ presort[2].positive_rate_jp = presort[3].positive_rate_jp
    /\ outFile.data # presort

\* C4 as claimed: during the scan, whenever the number of accumulated
\* entries is SAVE_EVERY * k for any k >= 0, the checkpoint file exists and
\* holds exactly the accumulated entries in accumulation order.
C4_CheckpointAnyK ==
    (Scanning /\ \E k \in 0..Len(results) : Len(results) = SAVE_EVERY * k)
        => (tmpFile.exists /\ tmpFile.data = results)

\* C4 amended: the same for k >= 1.
C4_Checkpoint ==
    (Scanning /\ \E k \in 1..Len(results) : Len(results) = SAVE_EVERY * k)
        => (tmpFile.exists /\ tmpFile.data = results)

\* C4 witness: the second checkpoint of a run has been written, over the
\* first one and over the file an earlier run left.
C4_Witness ==
    /\ Scanning
    /\ leftover
    /\ Len(results) = SAVE_EVERY * 2
    /\ tmpFile.data = results

\* C5 as claimed: when the scan has completed, the output file is written
\* while any checkpoint (written by this run or left by an earlier one) still
\* exists, and once main() has returned no checkpoint file exists.
C5_CheckpointRemoved ==
    /\ pc = "cleanup" =>
          /\ outFile.exists
          /\ outFile.data = results
          /\ (leftover \/ Len(results) >= SAVE_EVERY) => tmpFile.exists
    /\ pc = "done" =>
          /\ outFile.exists
          /\ outFile.data = results
          /\ ~tmpFile.exists

\* C6: for an id whose Japanese summary qualifies and whose details fetch
\* succeeds, an absent all-languages summary still yields an entry, with
\* total_reviews_all and positive_rate_all null and every other field as
\* when the all-languages summary is present.
C6_AllLanguagesAbsent ==
    ( /\ pc = "sleep"
      /\ JpQualifies
      /\ details_resp # None
      /\ get_app_details(App.appid, details_resp[1]) # None
      /\ all_qs = None )
    => /\ outcome = "added"
       /\ Last.total_reviews_all = None
       /\ Last.positive_rate_all = None
       /\ Last = [Entry(App, jp, Some(Summary(1000, 800)),
                        get_app_details(App.appid, details_resp[1])[1])
                  EXCEPT !.total_reviews_all = None, !.positive_rate_all = None]

\* C6 witness: an entry was appended for an id with a full store page whose
\* all-languages call returned nothing.
C6_Witness ==
    /\ pc = "sleep"
    /\ outcome = "added"
    /\ all_qs = None
    /\ Last.price_final = Some(500)

\* C7: when the API key is absent or the catalog fetch ends in an error, the
\* run stops before any per-id work and leaves both files as they were.
C7_FatalWritesNothing ==
    ( \/ ~apiKey
      \/ catalog_resp # None /\ CatalogFailed(catalog_resp[1]) )
    => /\ pc \in {"start", "aborted"}
       /\ tmpFile = PriorFile(leftover)
       /\ outFile = PriorFile(leftover)
       /\ results = << >>
       /\ i = 0
       /\ sinceSleep = 0

\* C7 witness: the catalog fetch failed with a key set and files of an
\* earlier run on disk.
C7_Witness ==
    /\ pc = "aborted"
    /\ apiKey
    /\ leftover
    /\ catalog_resp = Some(Status(503))

\* C8 as claimed: for any Japanese summary the upstream returns,
\* positive_rate_jp of every entry is between 0 and 100 and is
\* total_positive / total_reviews * 100 rounded to the nearest hundredth.
C8_PositiveRate ==
    /\ \A n \in 1..Len(results) :
          /\ results[n].positive_rate_jp >= 0
          /\ results[n].positive_rate_jp <= 10000
    /\ (pc = "sleep" /\ outcome = "added") =>
          /\ Last.total_reviews_jp = jp[1].total_reviews
          /\ 2 * Abs(Last.positive_rate_jp * jp[1].total_reviews
                     - 10000 * jp[1].total_positive) <= jp[1].total_reviews

\* The data dict of this iteration's store-details response
UpstreamData ==
    Get(Get(details_resp[1].json[1], ToString(App.appid), EmptyDict), "data", EmptyDict)

\* C9 as claimed: an entry has all six optional fields, and each one whose
\* value the upstream response did not carry is null.
C9_ExplicitNulls ==
    (pc = "sleep" /\ outcome = "added") =>
        /\ { "total_reviews_all", "positive_rate_all", "release_date",
             "price_initial", "price_final", "discount_percent" } \subseteq DOMAIN Last
        /\ (all_qs = None \/ "total_reviews" \notin DOMAIN all_qs[1])
              => Last.total_reviews_all = None
        /\ (all_qs = None \/ "total_reviews" \notin DOMAIN all_qs[1]
                          \/ "total_positive" \notin DOMAIN all_qs[1])
              => Last.positive_rate_all = None
        /\ "date" \notin DOMAIN Get(UpstreamData, "release_date", EmptyDict)
              => Last.release_date = None
        /\ "initial" \notin DOMAIN Get(UpstreamData, "price_overview", EmptyDict)
              => Last.price_initial = None
        /\ "final" \notin DOMAIN Get(UpstreamData, "price_overview", EmptyDict)
              => Last.price_final = None
        /\ "discount_percent" \notin DOMAIN Get(UpstreamData, "price_overview", EmptyDict)
              => Last.discount_percent = None

\* C10: every settled id is followed by exactly one delay: the delays so far
\* number the ids settled so far, no request has been sent since the last
\* delay when the next id begins, and an id sends at most three requests.
C10_Pacing ==
    /\ pc \in {"loop", "all", "details", "sleep", "crashed", "cleanup", "done"}
          => sleeps = i
    /\ pc \in {"loop", "cleanup", "done"} => sinceSleep = 0
    /\ sinceSleep <= 3

\* C10 witness: a scan that has settled ids in all three ways: one entry
\* accumulated, one id below the threshold, and this one without details.
C10_Witness ==
    /\ pc = "sleep"
    /\ outcome = "skip_details"
    /\ sleeps = 2
    /\ Len(results) = 1
    /\ Cardinality(excluded) = 1
====
